---- MODULE Spec2Model ----
(***************************************************************************)
(* Model of skool_dash.py: a Streamlit dashboard over the SQLite table     *)
(* skool_data.  Every user interaction reruns the whole script; the model  *)
(* follows one browser session at a time through the script, step by step, *)
(* with the st.cache_data caches shared by all runs of the process.        *)
(*                                                                         *)
(* Texts are sequences of one-character strings, so that LIKE matching     *)
(* and substring search are computed character by character.  A data frame *)
(* is the sequence of the store's row numbers it holds, in order; a column *)
(* of it is read from the store row.                                       *)
(***************************************************************************)
EXTENDS Integers, Sequences, FiniteSets, TLC

\* ------------------------------------------------------------- bounds
\* number of rows of the table skool_data in the modelled store
NumRows == 45
\* the user stops interacting once this many queries have hit the store
MaxQueries == 4

\* ------------------------------------------------------------- constants
rows_per_page == 20

\* ------------------------------------------------------------- the store
TopicA == <<"A">>
TopicB == <<"B">>

\* The rows of skool_data: 20 free rows of topic A, then topic B with 20
\* paid rows and the rest free.  Descriptions cycle through "ab", "A", "".
StoreRow(i) ==
    [ topic       |-> IF i <= 20 THEN TopicA ELSE TopicB,
      free        |-> IF i <= 20 \/ i > 40 THEN 1 ELSE 0,
      price       |-> IF i <= 20 \/ i > 40 THEN "0"
                      ELSE IF i % 2 = 0 THEN "Paid"
                      ELSE IF i % 4 = 1 THEN "10" ELSE "30",
      members     |-> (i * 7) % 50,
      description |-> IF i % 3 = 0 THEN <<"a", "b">>
                      ELSE IF i % 3 = 1 THEN <<"A">> ELSE << >> ]

Store == [i \in 1..NumRows |-> StoreRow(i)]

\* What the schema of the store file can be: the table the script expects,
\* no table skool_data at all, or a table without the column community_mame.
Schemas == {"ok", "no_table", "no_column"}

\* ------------------------------------------------------------- helpers
Range(s) == {s[i] : i \in 1..Len(s)}

RECURSIVE SelectSeq2(_, _)
\* the subsequence of the row numbers 1..n whose row is in the set keep
SelectSeq2(n, keep) ==
    IF n = 0 THEN << >>
    ELSE IF n \in keep THEN Append(SelectSeq2(n - 1, keep), n)
    ELSE SelectSeq2(n - 1, keep)

RECURSIVE SumSeq(_)
SumSeq(s) == IF s = << >> THEN 0 ELSE Head(s) + SumSeq(Tail(s))

\* ------------------------------------------------------------- SQL text
\* A query is its sequence of clauses; a clause is a record [kind, n].
SelectColumns   == [kind |-> "select_columns_where_1_1", n |-> 0]
SelectTopics    == [kind |-> "select_distinct_topic", n |-> 0]
TopicIn(n)      == [kind |-> "and_topic_in", n |-> n]
DescriptionLike == [kind |-> "and_description_like", n |-> 1]
FreeEq(v)       == [kind |-> "and_free_eq", n |-> v]

\* ASCII case folding of SQLite's LIKE, over the model's alphabet
FoldCase(c) == IF c = "A" THEN "a" ELSE IF c = "B" THEN "b" ELSE c

RECURSIVE Like(_, _)
\* SQLite's  s LIKE pat : % matches any run of characters, _ any one
\* character, every other character matches itself case-insensitively.
Like(pat, s) ==
    IF pat = << >> THEN s = << >>
    ELSE IF Head(pat) = "%"
         THEN Like(Tail(pat), s) \/ (s # << >> /\ Like(pat, Tail(s)))
    ELSE IF s = << >> THEN FALSE
    ELSE IF Head(pat) = "_" THEN Like(Tail(pat), Tail(s))
    ELSE FoldCase(Head(pat)) = FoldCase(Head(s)) /\ Like(Tail(pat), Tail(s))

RECURSIVE RowMatches(_, _, _)
\* the WHERE clauses of a query, evaluated on one row; the ? placeholders
\* take the parameters in order
RowMatches(row, clauses, params) ==
    IF clauses = << >> THEN TRUE
    ELSE LET c == Head(clauses) IN
         IF c.kind = "and_topic_in"
         THEN /\ row.topic \in {params[j] : j \in 1..c.n}
              /\ RowMatches(row, Tail(clauses), SubSeq(params, c.n + 1, Len(params)))
         ELSE IF c.kind = "and_description_like"
         THEN /\ Like(params[1], row.description)
              /\ RowMatches(row, Tail(clauses), Tail(params))
         ELSE IF c.kind = "and_free_eq"
         THEN row.free = c.n /\ RowMatches(row, Tail(clauses), params)
         ELSE RowMatches(row, Tail(clauses), params)

\* the query fails against the schema (sqlite3 / pandas raise)
SqlFails(query, schema) ==
    \/ schema = "no_table"
    \/ schema = "no_column" /\ Head(query) = SelectColumns

\* pd.read_sql on the store: the matching rows in the store's order; for
\* SELECT DISTINCT topic, the first row of each topic.
ReadSql(query, params) ==
    IF Head(query) = SelectTopics
    THEN SelectSeq2(NumRows, {i \in 1..NumRows :
                                \A j \in 1..(i - 1) : Store[j].topic # Store[i].topic})
    ELSE SelectSeq2(NumRows, {i \in 1..NumRows :
                                RowMatches(Store[i], Tail(query), params)})

\* ------------------------------------------------------------- filter_data
\* the LIKE parameter f'%{search_term}%'
LikePattern(term) == <<"%">> \o term \o <<"%">>

\* The query text and the parameter list filter_data builds.
BuildQuery(topics, term, prices) ==
    LET q1 == IF topics # << >> THEN <<SelectColumns, TopicIn(Len(topics))>>
              ELSE <<SelectColumns>>
        p1 == IF topics # << >> THEN topics ELSE << >>
        q2 == IF term # << >> THEN Append(q1, DescriptionLike) ELSE q1
        p2 == IF term # << >> THEN Append(p1, LikePattern(term)) ELSE p1
        q3 == IF prices # {}
              THEN IF "Free" \in prices /\ "Paid" \notin prices
                   THEN Append(q2, FreeEq(1))
                   ELSE IF "Paid" \in prices /\ "Free" \notin prices
                   THEN Append(q2, FreeEq(0))
                   ELSE q2
              ELSE q2
    IN  [query |-> q3, params |-> p2]

\* ------------------------------------------------------------- statistics
\* pd.to_numeric(..., errors='coerce') on a price text of the store: the
\* amount, or NaN (here -1) for a text that is no number
ToNumeric(t) ==
    IF t = "0" THEN 0 ELSE IF t = "10" THEN 10 ELSE IF t = "30" THEN 30 ELSE -1

RECURSIVE NumericPrices(_)
\* the numeric prices of a frame, NaN skipped as max/min/mean/median skip it
NumericPrices(df) ==
    IF df = << >> THEN << >>
    ELSE LET v == ToNumeric(Store[Head(df)].price) IN
         IF v < 0 THEN NumericPrices(Tail(df))
         ELSE <<v>> \o NumericPrices(Tail(df))

Members(df) == [i \in 1..Len(df) |-> Store[df[i]].members]

\* n / d rounded to an integer, ties to even, as the format specs round
RoundHalfEven(n, d) ==
    LET q == n \div d
        r == n % d
    IN  IF 2 * r < d THEN q
        ELSE IF 2 * r > d THEN q + 1
        ELSE IF q % 2 = 0 THEN q ELSE q + 1

SeqMax(vals) == CHOOSE v \in Range(vals) : \A w \in Range(vals) : w <= v
SeqMin(vals) == CHOOSE v \in Range(vals) : \A w \in Range(vals) : v <= w

\* the k-th smallest value of a non-empty sequence
KthSmallest(vals, k) ==
    CHOOSE v \in Range(vals) :
        /\ Cardinality({i \in 1..Len(vals) : vals[i] < v}) < k
        /\ Cardinality({i \in 1..Len(vals) : vals[i] <= v}) >= k

\* twice the median of a non-empty sequence
TwiceMedian(vals) ==
    LET n == Len(vals) IN
    IF n % 2 = 1 THEN 2 * KthSmallest(vals, (n + 1) \div 2)
    ELSE KthSmallest(vals, n \div 2) + KthSmallest(vals, n \div 2 + 1)

\* A formatted statistic: the text "nan" or a number (value, in the unit of
\* the format: cents for :.2f, units for :,.0f).
Nan == [text |-> "nan", value |-> 0]
Number(v) == [text |-> "number", value |-> v]

\* Max / Min / Mean / Median of a series, formatted with `scale` digits
\* after the point kept as an integer (scale 100 for :.2f, 1 for :,.0f).
\* Every aggregate of an empty series is NaN, which formats as "nan".
Describe(vals, scale) ==
    IF vals = << >>
    THEN [max |-> Nan, min |-> Nan, mean |-> Nan, median |-> Nan]
    ELSE [max    |-> Number(SeqMax(vals) * scale),
          min    |-> Number(SeqMin(vals) * scale),
          mean   |-> Number(RoundHalfEven(SumSeq(vals) * scale, Len(vals))),
          median |-> Number(RoundHalfEven(TwiceMedian(vals) * scale, 2))]

PaidCourses(df) == Cardinality({i \in 1..Len(df) : Store[df[i]].price = "Paid"})

\* ------------------------------------------------------------- pagination
\* df.iloc[a:b] for 0 <= a <= b: the rows at 0-based positions a..b-1 that
\* exist
Iloc(df, a, b) ==
    LET hi == IF b < Len(df) THEN b ELSE Len(df) IN
    IF a >= hi THEN << >> ELSE SubSeq(df, a + 1, hi)

\* the number of pages the script computes for total_rows rows
PageCount(total_rows) == (total_rows \div rows_per_page) + 1

\* ------------------------------------------------------------- state
VARIABLES
    schema,          \* the schema of the store file (fixed)
    db_exists,       \* os.path.exists('skool_data.db') during the current run
    cache,           \* st.cache_data of execute_query: key -> data frame
    topics_cache,    \* st.cache_data of get_topics: << >> or <<the list>>
    requested,       \* the (query, params) pairs execute_query was called with
    executions,      \* how many times pd.read_sql ran a query on the store
    failures,        \* how many calls of execute_query raised
    open_conns,      \* connections opened and not closed
    session_state,   \* st.session_state: a function on the keys it holds
    selected_topics, \* value of the multiselect 'Select Topic'
    search_term,     \* value of the text input 'Search in Description'
    price_filter,    \* value of the multiselect 'Price Type'
    event,           \* the interaction that started the current run
    pc,              \* where the current run of the script is
    topic_options,   \* the options get_topics() gave this run
    df_filtered,     \* the frame filter_data returned this run
    df_paginated,    \* the rows of the table shown this run
    page_indicator,  \* the numbers written in "Page p of N"
    price_stats,     \* the price statistics written this run
    member_stats,    \* the member statistics written this run
    output           \* the elements the run has put on the page, in order

vars == <<schema, db_exists, cache, topics_cache, requested, executions,
          failures, open_conns, session_state, selected_topics, search_term,
          price_filter, event, pc, topic_options, df_filtered, df_paginated,
          page_indicator, price_stats, member_stats, output>>

store_vars   == <<cache, topics_cache, requested, executions, failures, open_conns>>
widget_vars  == <<selected_topics, search_term, price_filter>>
display_vars == <<topic_options, df_filtered, df_paginated, page_indicator,
                  price_stats, member_stats>>

NoStats == [max |-> Nan, min |-> Nan, mean |-> Nan, median |-> Nan]
NoPriceStats == NoStats @@ [paid_courses |-> Nan]
NoIndicator == [page |-> 0, of |-> 0]

\* the search terms a user types, and the price types offered
SearchTerms == {<< >>, <<"a">>, <<"_">>}
PriceTypes == {"Free", "Paid"}

Ended == pc \in {"done", "stopped", "raised"}
Rendered(element) == element \in Range(output)

Init ==
    /\ schema \in Schemas
    /\ db_exists = TRUE
    /\ cache = << >>
    /\ topics_cache = << >>
    /\ requested = {}
    /\ executions = 0
    /\ failures = 0
    /\ open_conns = 0
    /\ session_state = << >>
    /\ selected_topics = << >>
    /\ search_term = << >>
    /\ price_filter = {}
    /\ event = "none"
    /\ pc = "init"
    /\ topic_options = << >>
    /\ df_filtered = << >>
    /\ df_paginated = << >>
    /\ page_indicator = NoIndicator
    /\ price_stats = NoPriceStats
    /\ member_stats = NoStats
    /\ output = << >>

\* ------------------------------------------------------------- execute_query
\* the key st.cache_data files a call of execute_query under: its arguments
CacheKeyQueryOnly(query, params) == <<query, << >>>>
CacheKey(query, params) == <<query, params>>

\* execute_query(query, params) raises: a cache miss whose query fails
Raises(query, params) ==
    CacheKey(query, params) \notin DOMAIN cache /\ SqlFails(query, schema)

\* what execute_query(query, params) returns when it does not raise
Returned(query, params) ==
    IF CacheKey(query, params) \in DOMAIN cache
    THEN cache[CacheKey(query, params)]
    ELSE ReadSql(query, params)

\* The effect of one call of execute_query.  A cached call touches nothing.
\* Otherwise a connection is opened and the query run; if it raises, the
\* exception leaves the function before conn.close(); if not, the connection
\* is closed and the frame cached.
execute_query(query, params) ==
    /\ requested' = requested \cup {<<query, params>>}
    /\ IF CacheKey(query, params) \in DOMAIN cache
       THEN UNCHANGED <<cache, executions, failures, open_conns>>
       ELSE /\ executions' = executions + 1
            /\ IF SqlFails(query, schema)
               THEN /\ failures' = failures + 1
                    /\ open_conns' = open_conns + 1
                    /\ UNCHANGED cache
               ELSE /\ cache' = cache @@ (CacheKey(query, params) :> ReadSql(query, params))
                    /\ UNCHANGED <<failures, open_conns>>

\* ------------------------------------------------------------- interactions
\* A rerun starts: the widgets hold their new values, the page is cleared
\* and the script runs from the top, down to st.title.
StartRun(ev, topics, term, prices) ==
    /\ Ended \/ pc = "init"
    /\ \/ executions < MaxQueries
       \/ /\ topics_cache # << >>
          /\ LET q == BuildQuery(topics, term, prices) IN
             CacheKey(q.query, q.params) \in DOMAIN cache
    /\ event' = ev
    /\ selected_topics' = topics
    /\ search_term' = term
    /\ price_filter' = prices
    /\ db_exists' \in BOOLEAN
    /\ pc' = "check"
    /\ output' = <<"title">>
    /\ topic_options' = << >>
    /\ df_filtered' = << >>
    /\ df_paginated' = << >>
    /\ page_indicator' = NoIndicator
    /\ price_stats' = NoPriceStats
    /\ member_stats' = NoStats
    /\ UNCHANGED <<schema, store_vars>>

\* a browser opens (or reloads) the page: a new session, widgets at default
NewSession ==
    /\ StartRun("load", << >>, << >>, {})
    /\ session_state' = << >>

\* the session reruns the script with nothing changed
Rerun ==
    /\ pc # "init"
    /\ StartRun("rerun", selected_topics, search_term, price_filter)
    /\ UNCHANGED session_state

\* s without its i-th element
Without(s, i) == SubSeq(s, 1, i - 1) \o SubSeq(s, i + 1, Len(s))

\* Every change of one widget reruns the script at once, so a rerun sees one
\* widget changed.  The user picks one more topic or drops a picked one:
ChangeTopics ==
    /\ Rendered("sidebar")
    /\ \/ \E t \in Range(topic_options) \ Range(selected_topics) :
            StartRun("filter", Append(selected_topics, t), search_term, price_filter)
       \/ \E i \in 1..Len(selected_topics) :
            StartRun("filter", Without(selected_topics, i), search_term, price_filter)
    /\ UNCHANGED session_state

\* the user types another search term
ChangeSearch ==
    /\ Rendered("sidebar")
    /\ \E term \in SearchTerms \ {search_term} :
            StartRun("filter", selected_topics, term, price_filter)
    /\ UNCHANGED session_state

\* the user picks one more price type or drops a picked one
ChangePrice ==
    /\ Rendered("sidebar")
    /\ \E t \in PriceTypes :
            StartRun("filter", selected_topics, search_term,
                     IF t \in price_filter THEN price_filter \ {t}
                     ELSE price_filter \cup {t})
    /\ UNCHANGED session_state

ClickPrevious ==
    /\ Rendered("buttons")
    /\ StartRun("prev", selected_topics, search_term, price_filter)
    /\ UNCHANGED session_state

ClickNext ==
    /\ Rendered("buttons")
    /\ StartRun("next", selected_topics, search_term, price_filter)
    /\ UNCHANGED session_state

\* ------------------------------------------------------------- the script
\* if not os.path.exists('skool_data.db'): st.error(...); st.stop()
CheckDatabaseNoStop ==
    /\ pc = "check"
    /\ output' = IF db_exists THEN output ELSE Append(output, "error")
    /\ pc' = "sidebar"
    /\ UNCHANGED <<schema, db_exists, store_vars, session_state, widget_vars,
                   event, display_vars>>

CheckDatabase ==
    /\ pc = "check"
    /\ IF db_exists
       THEN /\ pc' = "sidebar"
            /\ UNCHANGED output
       ELSE /\ pc' = "stopped"
            /\ output' = Append(output, "error")
    /\ UNCHANGED <<schema, db_exists, store_vars, session_state, widget_vars,
                   event, display_vars>>

\* the column 'topic' of a frame, as a list
TopicColumn(df) == [i \in 1..Len(df) |-> Store[df[i]].topic]

\* The sidebar: get_topics() (cached on its own; a miss calls execute_query
\* with the DISTINCT query and no parameters), then the three widgets.  An
\* exception of the query ends the run.
Sidebar ==
    /\ pc = "sidebar"
    /\ IF topics_cache # << >>
       THEN /\ topic_options' = topics_cache[1]
            /\ output' = Append(output, "sidebar")
            /\ pc' = "filter"
            /\ UNCHANGED store_vars
       ELSE /\ execute_query(<<SelectTopics>>, << >>)
            /\ IF Raises(<<SelectTopics>>, << >>)
               THEN /\ pc' = "raised"
                    /\ output' = Append(output, "exception")
                    /\ UNCHANGED <<topics_cache, topic_options>>
               ELSE /\ topics_cache' = <<TopicColumn(Returned(<<SelectTopics>>, << >>))>>
                    /\ topic_options' = TopicColumn(Returned(<<SelectTopics>>, << >>))
                    /\ output' = Append(output, "sidebar")
                    /\ pc' = "filter"
    /\ UNCHANGED <<schema, db_exists, session_state, widget_vars, event,
                   df_filtered, df_paginated, page_indicator, price_stats,
                   member_stats>>

\* df_filtered = filter_data(selected_topics, search_term, price_filter)
FilterData ==
    /\ pc = "filter"
    /\ LET q == BuildQuery(selected_topics, search_term, price_filter) IN
       /\ execute_query(q.query, q.params)
       /\ IF Raises(q.query, q.params)
          THEN /\ pc' = "raised"
               /\ output' = Append(output, "exception")
               /\ UNCHANGED df_filtered
          ELSE /\ df_filtered' = Returned(q.query, q.params)
               /\ pc' = "paginate"
               /\ UNCHANGED output
    /\ UNCHANGED <<schema, db_exists, topics_cache, session_state, widget_vars,
                   event, topic_options, df_paginated, page_indicator,
                   price_stats, member_stats>>

\* if 'page_number' not in st.session_state: st.session_state.page_number = 1
InitPageNumberAlways(ss) == [page_number |-> 1]
InitPageNumber(ss) ==
    IF "page_number" \in DOMAIN ss THEN ss ELSE [page_number |-> 1]

\* the Previous button: pressed is what st.button("Previous") returns
OnPrevious(ss, pressed) ==
    IF pressed /\ ss.page_number > 1
    THEN [page_number |-> ss.page_number - 1]
    ELSE ss

\* the Next button
OnNext(ss, pressed, total_rows) ==
    IF pressed /\ ss.page_number < PageCount(total_rows)
    THEN [page_number |-> ss.page_number + 1]
    ELSE ss

\* Pagination state, the two buttons, the page indicator, the page slice and
\* the table of the slice.
Paginate ==
    /\ pc = "paginate"
    /\ LET total_rows == Len(df_filtered)
           s0 == InitPageNumber(session_state)
           s1 == OnPrevious(s0, event = "prev")
           s2 == OnNext(s1, event = "next", total_rows)
           start_row == (s2.page_number - 1) * rows_per_page
       IN  /\ session_state' = s2
           /\ page_indicator' = [page |-> s2.page_number, of |-> PageCount(total_rows)]
           /\ df_paginated' = Iloc(df_filtered, start_row, start_row + rows_per_page)
    /\ output' = output \o <<"buttons", "page_indicator", "table">>
    /\ pc' = "analytics"
    /\ UNCHANGED <<schema, db_exists, store_vars, widget_vars, event,
                   topic_options, df_filtered, price_stats, member_stats>>

\* Items per topic, price statistics and member statistics of the whole
\* filtered frame.
Analytics ==
    /\ pc = "analytics"
    /\ price_stats' = Describe(NumericPrices(df_filtered), 100)
                        @@ [paid_courses |-> Number(PaidCourses(df_filtered))]
    /\ member_stats' = Describe(Members(df_filtered), 1)
    /\ output' = output \o <<"topic_counts", "price_stats", "paid_courses", "member_stats">>
    /\ pc' = "charts"
    /\ UNCHANGED <<schema, db_exists, store_vars, session_state, widget_vars,
                   event, topic_options, df_filtered, df_paginated, page_indicator>>

\* df_filtered['free'].map({1: 'Free', 0: 'Paid'}).value_counts()
FreePaidCounts(df) ==
    [Free |-> Cardinality({i \in 1..Len(df) : Store[df[i]].free = 1}),
     Paid |-> Cardinality({i \in 1..Len(df) : Store[df[i]].free = 0})]

\* The charts; the pie chart only if free_paid_counts is not empty.
Visualizations ==
    /\ pc = "charts"
    /\ LET c == FreePaidCounts(df_filtered) IN
       output' = output \o <<"bar_chart", "box_plot", "scatter", "free_paid_counts">>
                        \o (IF c.Free + c.Paid # 0 THEN <<"pie_chart">>
                            ELSE <<"no_data_message">>)
    /\ pc' = "done"
    /\ UNCHANGED <<schema, db_exists, store_vars, session_state, widget_vars,
                   event, display_vars>>

Next ==
    \/ NewSession
    \/ Rerun
    \/ ChangeTopics
    \/ ChangeSearch
    \/ ChangePrice
    \/ ClickPrevious
    \/ ClickNext
    \/ CheckDatabase
    \/ Sidebar
    \/ FilterData
    \/ Paginate
    \/ Analytics
    \/ Visualizations

Spec == Init /\ [][Next]_vars

\* ------------------------------------------------------------- properties
\* notions of the specification the claims are stated in
CeilDiv(n, d) == (n + d - 1) \div d
ValidPages(total_rows) ==
    IF CeilDiv(total_rows, rows_per_page) > 1
    THEN CeilDiv(total_rows, rows_per_page) ELSE 1

HasPage(ss) == "page_number" \in DOMAIN ss
AfterFilter == pc \in {"paginate", "analytics", "charts", "done"}

\* term occurs in s as a substring, character for character
Contains(s, term) ==
    \E i \in 0..(Len(s) - Len(term)) : SubSeq(s, i + 1, i + Len(term)) = term

\* a record satisfies the filter criteria, as the claim C5 states them
Satisfies(row, topics, term, prices) ==
    /\ topics # << >> => row.topic \in Range(topics)
    /\ term # << >> => Contains(row.description, term)
    /\ prices = {"Free"} => row.free = 1
    /\ prices = {"Paid"} => row.free = 0

\* C1: after a full rerun, the page number is within
\* [1, max(1, ceil(T/20))], T the number of rows of the filtered result.
C1_PageWithinRange ==
    pc = "done" =>
        /\ HasPage(session_state)
        /\ session_state.page_number \in 1..ValidPages(Len(df_filtered))

\* C2: the page indicator "Page p of N" shows N = max(1, ceil(T/20)).
C2_IndicatorPageCount ==
    Rendered("page_indicator") =>
        page_indicator.of = ValidPages(Len(df_filtered))

\* C3: a Next click adds 1 to the page number iff it is below ceil(T/20)
\* and otherwise leaves it; a Previous click subtracts 1 iff it is above 1
\* and otherwise leaves it; neither raises.
C3_NextPreviousSteps ==
    [][(pc = "paginate" /\ HasPage(session_state)) =>
        LET p == session_state.page_number
            T == Len(df_filtered)
        IN  /\ pc' # "raised"
            /\ event = "next" =>
                 session_state'.page_number =
                     IF p < CeilDiv(T, rows_per_page) THEN p + 1 ELSE p
            /\ event = "prev" =>
                 session_state'.page_number = IF p > 1 THEN p - 1 ELSE p]_vars

\* C4: the table shows exactly the rows at 0-based positions
\* (p-1)*20 <= i < min(p*20, T) of the result, in order; and a Next click
\* on a page of the valid range of a non-empty result shows a page of 1 to
\* 20 rows (blocks of 20, then the remainder, then Next stays).
C4_PageSlice ==
    [][pc = "paginate" =>
        LET T == Len(df_filtered)
            p == session_state'.page_number
            lo == (p - 1) * rows_per_page
            hi == IF p * rows_per_page < T THEN p * rows_per_page ELSE T
        IN  /\ df_paginated' = [i \in 1..(IF hi > lo THEN hi - lo ELSE 0) |->
                                   df_filtered[lo + i]]
            /\ ( /\ event = "next"
                 /\ T > 0
                 /\ HasPage(session_state)
                 /\ session_state.page_number <= ValidPages(T) )
               => Len(df_paginated') \in 1..rows_per_page]_vars

\* C5: filter_data returns exactly the records that satisfy the AND of the
\* active restrictions: topic in the selected set, description containing
\* the search term, free = 1 for Free only and free = 0 for Paid only.
C5_FilterExact ==
    AfterFilter =>
        df_filtered = SelectSeq2(NumRows, {i \in 1..NumRows :
            Satisfies(Store[i], selected_topics, search_term, price_filter)})

\* C6, as claimed: the number of store executions equals the number of
\* distinct (query, params) pairs requested.
C6_ExecutionsEqualRequested ==
    executions = Cardinality(requested)

\* C6, amended: the pairs in the cache are exactly the requested pairs whose
\* query the store accepts, each executed once and holding the rows the
\* query gives; a repeated call of a cached pair returns the cached rows
\* without an execution; no entry is ever evicted or changed.  (A failing
\* query is not cached: every call of it executes again.)
C6_CachedReader ==
    /\ [](/\ DOMAIN cache = {k \in requested : ~SqlFails(k[1], schema)}
          /\ executions - failures = Cardinality(DOMAIN cache)
          /\ \A k \in DOMAIN cache : cache[k] = ReadSql(k[1], k[2]))
    /\ [][/\ \A k \in DOMAIN cache : k \in DOMAIN cache' /\ cache'[k] = cache[k]
          /\ LET q == BuildQuery(selected_topics, search_term, price_filter) IN
             (pc = "filter" /\ <<q.query, q.params>> \in requested
                 /\ ~SqlFails(q.query, schema)) =>
                 /\ executions' = executions
                 /\ df_filtered' = cache[<<q.query, q.params>>]]_vars

\* a rerun with unchanged widgets has called filter_data again with the
\* pair of the run before, and the frame came from the cache
C6_Witness ==
    /\ event = "rerun"
    /\ pc = "paginate"
    /\ df_filtered # << >>
    /\ executions = Cardinality(DOMAIN cache)

\* C7: no connection is open once a call of execute_query has ended,
\* whether it returned or raised, and a failure reaches the caller.
C7_ConnectionClosed ==
    /\ open_conns = 0
    /\ pc = "raised" => Rendered("exception")

\* C8: in a run that starts with the store file missing, the script shows
\* one error and stops: no step of the run executes a query, opens a
\* connection, or touches the pagination state or the displayed data.
C8_MissingStoreStops ==
    /\ [](/\ ~db_exists => pc \in {"init", "check", "stopped"}
          /\ pc = "stopped" => (~db_exists /\ output = <<"title", "error">>))
    /\ [][(pc = "check" /\ ~db_exists) =>
            /\ pc' = "stopped"
            /\ UNCHANGED <<store_vars, session_state, display_vars>>]_vars

\* a run has stopped on the missing file although earlier runs had filled
\* the cache
C8_Witness ==
    /\ pc = "stopped"
    /\ ~db_exists
    /\ executions > 0

\* C9: with an empty result the table is empty, every numeric statistic is
\* reported as "no data", the pie chart is replaced by a message and the
\* run completes without an error.
C9_EmptyResultGraceful ==
    (pc = "done" /\ df_filtered = << >>) =>
        /\ df_paginated = << >>
        /\ \A f \in {"max", "min", "mean", "median"} :
              /\ price_stats[f].text = "no data"
              /\ member_stats[f].text = "no data"
        /\ Rendered("no_data_message")
        /\ ~Rendered("pie_chart")
        /\ ~Rendered("exception")

\* C10: the page number is set to 1 only when the session holds none, and
\* afterwards only a Previous or Next click changes it: a filter change or
\* a rerun without a click leaves it as it is.
C10_PageChangedOnlyByClicks ==
    [][/\ (~HasPage(session_state) /\ HasPage(session_state')) =>
              session_state'.page_number = 1
       /\ (HasPage(session_state) /\ HasPage(session_state')
              /\ session_state'.page_number # session_state.page_number) =>
              (pc = "paginate" /\ event \in {"prev", "next"})
       /\ (HasPage(session_state) /\ ~HasPage(session_state')) =>
              event' = "load"]_vars

\* a run after a filter change has finished on a page beyond the first,
\* and beyond the pages the new result has
C10_Witness ==
    /\ event = "filter"
    /\ pc = "done"
    /\ HasPage(session_state)
    /\ session_state.page_number > PageCount(Len(df_filtered))

====
